---- MODULE Spec2Model ----
(***************************************************************************)
(* Model of djangbone's BackboneAPIView (djangbone/views.py): the request  *)
(* dispatch of get/post/put/delete, pagination and field projection in     *)
(* serialize_qs/get_values, over a collection (base_queryset) that         *)
(* supports filter-by-key, get-by-key, slicing and delete.                 *)
(***************************************************************************)
EXTENDS Integers, Sequences, FiniteSets, TLC

\* ------------------------------------------------------------------ bounds
MaxKey == 1        \* primary keys are 0..MaxKey; key 0 is the falsy key (0, '')
MaxRows == 2       \* rows the base queryset yields
MaxPage == 2       \* largest page number a request asks for
MaxPageSize == 1   \* largest configured page_size

Keys == 0..MaxKey
Names == {"a", "b"}                 \* values of a record's "name" field
NoName == "-"                       \* data[k] of a key no record has
ModelFields == {"id", "name"}       \* the fields of the backing model
CustomNames == {"name", "extra"}    \* output names custom_values may define
MinPage == 0 - MaxPage
Threads == {1, 2}

VARIABLES
    cfg,      \* the view's class attributes (the resource specification)
    rows,     \* keys of the rows base_queryset yields, in order (a join may repeat a key)
    data,     \* data[k]: the "name" field of the record with key k
    req,      \* the request handled last
    resp,     \* the response to it
    deleted,  \* history: keys whose DELETE answered 200 and that were not created since
    thr       \* state of the concurrently handled DELETE requests

vars == <<cfg, rows, data, req, resp, deleted, thr>>

\* ------------------------------------------------------------ basic helpers
Min(a, b) == IF a < b THEN a ELSE b

\* An optional value is the empty set (None / absent) or a singleton.
The(S) == CHOOSE x \in S : TRUE

RECURSIVE SelectKey(_, _)
SelectKey(s, k) ==
    IF s = <<>> THEN <<>>
    ELSE IF Head(s) = k THEN <<k>> \o SelectKey(Tail(s), k)
    ELSE SelectKey(Tail(s), k)

RECURSIVE RemoveKey(_, _)
RemoveKey(s, k) ==
    IF s = <<>> THEN <<>>
    ELSE IF Head(s) = k THEN RemoveKey(Tail(s), k)
    ELSE <<Head(s)>> \o RemoveKey(Tail(s), k)

KeysOf(s) == {s[i] : i \in 1..Len(s)}

\* The model instances a sequence of row keys stands for.
Objs(rs, d) == [i \in 1..Len(rs) |-> [id |-> rs[i], name |-> d[rs[i]]]]

\* base_queryset.filter(pk=k), evaluated
Filter(rs, d, k) == Objs(SelectKey(rs, k), d)

\* Python truthiness of a url keyword value: key 0 stands for 0 and ''.
Truthy(k) == k # 0

\* kwargs.get(self.pk) as a condition
HasId(kwargs) == kwargs # {} /\ Truthy(The(kwargs))

\* ------------------------------------------------------------ JSON values
JInt(i) == [t |-> "int", i |-> i, s |-> ""]
JStr(s) == [t |-> "str", i |-> 0, s |-> s]

\* getattr(obj, name)
GetAttr(obj, n) == IF n = "id" THEN JInt(obj.id) ELSE JStr(obj.name)

\* custom_values[name](obj): a computed value, distinct from every plain field
CustomValue(n, obj) == [t |-> "custom", i |-> obj.id, s |-> obj.name]

\* values_override(obj): whatever mapping the override returns
OverrideValue(obj) == [json |-> [t |-> "override", i |-> obj.id, s |-> obj.name]]

\* dict update: entries of g replace same-named entries of f
\* variant: the plain field survives a same-named custom value
OverlayKeepPlain(f, g) ==
    [n \in (DOMAIN f) \cup (DOMAIN g) |-> IF n \in DOMAIN f THEN f[n] ELSE g[n]]
Overlay(f, g) ==
    [n \in (DOMAIN f) \cup (DOMAIN g) |-> IF n \in DOMAIN g THEN g[n] ELSE f[n]]

\* one iteration of the loop of get_values
LoopValues(c, obj) ==
    Overlay([n \in c.serialize_fields |-> GetAttr(obj, n)],
            [n \in c.custom_values |-> CustomValue(n, obj)])

\* qs.values(*serialize_fields); no field names means every field
NativeValues(c, obj) ==
    LET fs == IF c.serialize_fields = {} THEN ModelFields ELSE c.serialize_fields
    IN  [n \in fs |-> GetAttr(obj, n)]

\* get_values(qs); hasValues: qs is a queryset (qs.values is callable), not a list
GetValues(c, objs, hasValues) ==
    IF c.values_override
    THEN [i \in 1..Len(objs) |-> OverrideValue(objs[i])]
    ELSE IF c.custom_values # {} \/ ~hasValues
    THEN [i \in 1..Len(objs) |-> LoopValues(c, objs[i])]
    ELSE [i \in 1..Len(objs) |-> NativeValues(c, objs[i])]

\* ------------------------------------------------------------ responses
NoItems == <<>>
TextBody(txt) == [kind |-> "text", text |-> txt, items |-> NoItems]
ObjectBody(v) == [kind |-> "object", text |-> "", items |-> <<v>>]
ArrayBody(vs) == [kind |-> "array", text |-> "", items |-> vs]

\* an exception no handler catches: the server answers 500
ServerError == [ok |-> FALSE, body |-> TextBody("server error")]

\* ------------------------------------------------------------ pagination
\* variant: the offset taken from the page number itself
OffsetFromPage(param, size) ==
    IF param = {} THEN 0
    ELSE IF ~The(param).numeric THEN 0
    ELSE The(param).n * size
\* int(request.GET.get(page_param_name, 1)) and the offset; ValueError gives 0
Offset(param, size) ==
    IF param = {} THEN (1 - 1) * size
    ELSE IF ~The(param).numeric THEN 0
    ELSE (The(param).n - 1) * size

\* queryset[start:stop]: a Django queryset refuses negative indexing (the
\* exception is not caught by serialize_qs)
QsSlice(objs, start, stop) ==
    IF start < 0 \/ stop < 0
    THEN [ok |-> FALSE, objs |-> <<>>]
    ELSE [ok |-> TRUE, objs |-> SubSeq(objs, start + 1, Min(stop, Len(objs)))]

\* serialize_qs(queryset, single_object).
\*   objs:      the rows of the queryset as the caller holds them
\*   fresh:     the rows a new query of the same queryset yields now
\*              (qs.values() queries again; iterating qs reads the rows held)
\*   evaluated: the caller has iterated the queryset (slices come back as lists)
\*   isList:    the argument is a list ([obj]), not a queryset
SerializeQs(c, kwargs, param, objs, fresh, evaluated, isList, single) ==
    IF single \/ HasId(kwargs)
    THEN IF objs = <<>> THEN ServerError
         ELSE [ok |-> TRUE,
               body |-> ObjectBody(GetValues(c, SubSeq(objs, 1, 1), ~(evaluated \/ isList))[1])]
    ELSE IF c.page_size # {}
    THEN LET off == Offset(param, The(c.page_size))
             sl == QsSlice(objs, off, off + The(c.page_size))
         IN  IF ~sl.ok THEN ServerError
             ELSE [ok |-> TRUE,
                   body |-> ArrayBody(GetValues(c, sl.objs, ~(evaluated \/ isList)))]
    ELSE [ok |-> TRUE,
          body |-> ArrayBody(GetValues(c,
                       IF isList \/ c.values_override \/ c.custom_values # {}
                       THEN objs ELSE fresh,
                       ~isList))]

\* ------------------------------------------------------------ state space
Configs ==
    [add_form_class : BOOLEAN,
     edit_form_class : BOOLEAN,
     page_size : {{}} \cup {{s} : s \in 1..MaxPageSize},
     serialize_fields : {{}, ModelFields},
     custom_values : SUBSET CustomNames,
     values_override : BOOLEAN]

Kwargs == {{}} \cup {{k} : k \in Keys}
PageParams ==
    {{}} \cup {{[numeric |-> FALSE, n |-> 0]}}
         \cup {{[numeric |-> TRUE, n |-> p]} : p \in MinPage..MaxPage}

\* request bodies: not JSON; JSON the form rejects; JSON the form accepts
NoBody == [json |-> FALSE, valid |-> FALSE, name |-> NoName]
Bodies ==
    {NoBody, [json |-> TRUE, valid |-> FALSE, name |-> NoName]}
        \cup {[json |-> TRUE, valid |-> TRUE, name |-> n] : n \in Names}

RowSeqs == UNION {[1..n -> Keys] : n \in 0..MaxRows}

NoReq == [method |-> "NONE", kwargs |-> {}, param |-> {}, body |-> NoBody]
NoResp == [status |-> 0, body |-> TextBody(""), op |-> "none", validated |-> FALSE]
Request(m, kw, pp, b) == [method |-> m, kwargs |-> kw, param |-> pp, body |-> b]
Response(st, b, op, v) == [status |-> st, body |-> b, op |-> op, validated |-> v]

IdleThread ==
    [pc |-> "idle", kwargs |-> {}, qs |-> <<>>, seen |-> 0,
     status |-> 0, body |-> TextBody("")]

\* base_queryset is taken to yield the current rows each time it is used.
StoreOK ==
    /\ rows \in RowSeqs
    /\ data \in [Keys -> Names \cup {NoName}]
    /\ \A k \in Keys : (data[k] = NoName) <=> (k \notin KeysOf(rows))

Init ==
    /\ cfg \in Configs
    /\ StoreOK
    /\ req = NoReq
    /\ resp = NoResp
    /\ deleted = {}
    /\ thr = [p \in Threads |-> IdleThread]

\* ------------------------------------------------------------ GET
\* get(): the operation is chosen by the truthiness of kwargs.get(pk)
GetDispatch(kwargs) ==
    IF HasId(kwargs) THEN "get_single_item" ELSE "get_collection"

\* get_single_item(): assert len(qs) == 1, else Http404
\* variant: assert len(qs) >= 1
GetSingleItemAtLeastOne(c, kwargs, param, rs, d) ==
    LET qs == Filter(rs, d, The(kwargs))
    IN  IF Len(qs) < 1
        THEN Response(404, TextBody("not found"), "get_single_item", FALSE)
        ELSE LET out == SerializeQs(c, kwargs, param, qs, qs, TRUE, FALSE, FALSE)
             IN  Response(IF out.ok THEN 200 ELSE 500, out.body, "get_single_item", FALSE)
GetSingleItem(c, kwargs, param, rs, d) ==
    LET qs == Filter(rs, d, The(kwargs))
    IN  IF Len(qs) # 1
        THEN Response(404, TextBody("not found"), "get_single_item", FALSE)
        ELSE LET out == SerializeQs(c, kwargs, param, qs, qs, TRUE, FALSE, FALSE)
             IN  Response(IF out.ok THEN 200 ELSE 500, out.body, "get_single_item", FALSE)

\* get_collection()
GetCollection(c, kwargs, param, rs, d) ==
    LET qs == Objs(rs, d)
        out == SerializeQs(c, kwargs, param, qs, qs, FALSE, FALSE, FALSE)
    IN  Response(IF out.ok THEN 200 ELSE 500, out.body, "get_collection", FALSE)

Get ==
    \E kw \in Kwargs, pp \in PageParams :
        /\ req = NoReq
        /\ req' = Request("GET", kw, pp, NoBody)
        /\ resp' = IF GetDispatch(kw) = "get_single_item"
                   THEN GetSingleItem(cfg, kw, pp, rows, data)
                   ELSE GetCollection(cfg, kw, pp, rows, data)
        /\ UNCHANGED <<cfg, rows, data, deleted, thr>>

\* ------------------------------------------------------------ POST
PostRejected(c) == ~c.add_form_class

Post ==
    \E kw \in Kwargs, b \in Bodies :
        /\ req = NoReq
        /\ req' = Request("POST", kw, {}, b)
        /\ IF PostRejected(cfg)
           THEN /\ resp' = Response(405, TextBody("POST not supported"), "post", FALSE)
                /\ UNCHANGED <<rows, data, deleted>>
           ELSE IF ~b.json
           THEN /\ resp' = Response(400, TextBody("Invalid POST JSON"), "post", FALSE)
                /\ UNCHANGED <<rows, data, deleted>>
           ELSE IF ~b.valid
           THEN /\ resp' = Response(400, TextBody("ERROR: validation failed"), "post", TRUE)
                /\ UNCHANGED <<rows, data, deleted>>
           ELSE \E nk \in Keys \ KeysOf(rows) :
                    /\ Len(rows) < MaxRows
                    /\ rows' = Append(rows, nk)
                    /\ data' = [data EXCEPT ![nk] = b.name]
                    /\ deleted' = deleted \ {nk}
                    /\ LET obj == [id |-> nk, name |-> b.name]
                           out == SerializeQs(cfg, kw, {}, <<obj>>, <<obj>>, TRUE, TRUE, TRUE)
                       IN  resp' = Response(IF out.ok THEN 200 ELSE 500, out.body, "post", TRUE)
        /\ UNCHANGED <<cfg, thr>>

\* ------------------------------------------------------------ PUT
\* variant: `and` for `or`
PutRejectedAnd(c, kwargs) == ~c.edit_form_class /\ kwargs = {}
PutRejected(c, kwargs) == ~c.edit_form_class \/ kwargs = {}

\* the try block of put(): decode the body, then base_queryset.get(pk=...)
\* variant: the lookup before the decode
PutTryLookupFirst(b, n) ==
    IF n = 0 THEN "DoesNotExist"
    ELSE IF n > 1 THEN "MultipleObjectsReturned"
    ELSE IF ~b.json THEN "ValueError"
    ELSE "ok"
PutTry(b, n) ==
    IF ~b.json THEN "ValueError"
    ELSE IF n = 0 THEN "DoesNotExist"
    ELSE IF n > 1 THEN "MultipleObjectsReturned"
    ELSE "ok"

Put ==
    \E kw \in Kwargs, b \in Bodies :
        /\ req = NoReq
        /\ req' = Request("PUT", kw, {}, b)
        /\ IF PutRejected(cfg, kw)
           THEN /\ resp' = Response(405, TextBody("PUT not supported"), "put", FALSE)
                /\ UNCHANGED <<rows, data>>
           ELSE LET k == The(kw)
                    t == PutTry(b, Len(SelectKey(rows, k)))
                IN  IF t = "ValueError"
                    THEN /\ resp' = Response(400, TextBody("Invalid PUT JSON"), "put", FALSE)
                         /\ UNCHANGED <<rows, data>>
                    ELSE IF t = "DoesNotExist"
                    THEN /\ resp' = Response(404, TextBody("not found"), "put", FALSE)
                         /\ UNCHANGED <<rows, data>>
                    ELSE IF t = "MultipleObjectsReturned"
                    THEN /\ resp' = Response(500, ServerError.body, "put", FALSE)
                         /\ UNCHANGED <<rows, data>>
                    ELSE IF ~b.valid
                    THEN /\ resp' = Response(400, TextBody("ERROR: validation failed"),
                                             "put", TRUE)
                         /\ UNCHANGED <<rows, data>>
                    ELSE /\ data' = [data EXCEPT ![k] = b.name]
                         /\ rows' = rows
                         /\ LET obj == [id |-> k, name |-> b.name]
                                out == SerializeQs(cfg, kw, {}, <<obj>>, <<obj>>,
                                                   TRUE, TRUE, TRUE)
                            IN  resp' = Response(IF out.ok THEN 200 ELSE 500, out.body,
                                                 "put", TRUE)
        /\ UNCHANGED <<cfg, deleted, thr>>

\* ------------------------------------------------------------ DELETE
DeleteRejected(kwargs) == kwargs = {}

\* qs.delete(): every row the queryset matches goes
\* variant: the delete is left out
QsDeleteNothing(rs, k) == rs
QsDelete(rs, k) == RemoveKey(rs, k)

Delete ==
    \E kw \in Kwargs, pp \in PageParams :
        /\ req = NoReq
        /\ req' = Request("DELETE", kw, pp, NoBody)
        /\ IF DeleteRejected(kw)
           THEN /\ resp' = Response(405, TextBody("DELETE is not supported for collections"),
                                    "delete", FALSE)
                /\ UNCHANGED <<rows, data, deleted>>
           ELSE LET k == The(kw)
                    qs == Filter(rows, data, k)
                IN  IF qs = <<>>
                    THEN /\ resp' = Response(404, TextBody("not found"), "delete", FALSE)
                         /\ UNCHANGED <<rows, data, deleted>>
                    ELSE LET out == SerializeQs(cfg, kw, pp, qs, qs, TRUE, FALSE, FALSE)
                         IN  IF ~out.ok
                             THEN /\ resp' = Response(500, out.body, "delete", FALSE)
                                  /\ UNCHANGED <<rows, data, deleted>>
                             ELSE /\ rows' = QsDelete(rows, k)
                                  /\ data' = IF k \in KeysOf(rows')
                                             THEN data ELSE [data EXCEPT ![k] = NoName]
                                  /\ deleted' = deleted \cup {k}
                                  /\ resp' = Response(200, out.body, "delete", FALSE)
        /\ UNCHANGED <<cfg, thr>>

\* The response goes back to the client; the view keeps nothing of the request.
Reply ==
    /\ req # NoReq
    /\ req' = NoReq
    /\ resp' = NoResp
    /\ UNCHANGED <<cfg, rows, data, deleted, thr>>

Next == Get \/ Post \/ Put \/ Delete \/ Reply

Spec == Init /\ [][Next]_vars

\* ------------------------------------------------- concurrent DELETE requests
\* Two DELETE requests run delete() at the same time. Every call into the
\* collection is one step: the lookup (`if qs:` evaluates the queryset and
\* keeps its rows), the serialization of the rows held, and qs.delete().
StepThread(p, t) == [thr EXCEPT ![p] = t]

\* lines 143-146 and 150-151 of delete(); the requests carry no page parameter
DelLookup(p) ==
    /\ thr[p].pc = "idle"
    /\ \E kw \in Kwargs :
        IF DeleteRejected(kw)
        THEN thr' = StepThread(p, [thr[p] EXCEPT !.pc = "done", !.kwargs = kw,
                        !.status = 405,
                        !.body = TextBody("DELETE is not supported for collections")])
        ELSE LET qs == Filter(rows, data, The(kw))
             IN  IF qs = <<>>
                 THEN thr' = StepThread(p, [thr[p] EXCEPT !.pc = "done", !.kwargs = kw,
                                 !.status = 404, !.body = TextBody("not found")])
                 ELSE thr' = StepThread(p, [thr[p] EXCEPT !.pc = "found", !.kwargs = kw,
                                 !.qs = qs, !.seen = Len(qs)])
    /\ UNCHANGED <<cfg, rows, data, req, resp, deleted>>

\* line 147 of delete()
DelSerialize(p) ==
    /\ thr[p].pc = "found"
    /\ LET t == thr[p]
           out == SerializeQs(cfg, t.kwargs, {}, t.qs,
                              Filter(rows, data, The(t.kwargs)), TRUE, FALSE, FALSE)
       IN  thr' = StepThread(p, [t EXCEPT !.pc = IF out.ok THEN "serialized" ELSE "done",
                                          !.status = IF out.ok THEN 0 ELSE 500,
                                          !.body = out.body])
    /\ UNCHANGED <<cfg, rows, data, req, resp, deleted>>

\* lines 148-149 of delete()
DelDelete(p) ==
    /\ thr[p].pc = "serialized"
    /\ LET k == The(thr[p].kwargs)
       IN  /\ rows' = QsDelete(rows, k)
           /\ data' = IF k \in KeysOf(rows') THEN data ELSE [data EXCEPT ![k] = NoName]
    /\ thr' = StepThread(p, [thr[p] EXCEPT !.pc = "done", !.status = 200])
    /\ UNCHANGED <<cfg, req, resp, deleted>>

NextConc == \E p \in Threads : DelLookup(p) \/ DelSerialize(p) \/ DelDelete(p)

SpecConc == Init /\ [][NextConc]_vars

\* ------------------------------------------------------------------ claims
\* The projection get_values gives one model instance held as a list.
RecordProjection(obj) ==
    IF cfg.values_override THEN OverrideValue(obj)
    ELSE [n \in cfg.serialize_fields \cup cfg.custom_values |->
             IF n \in cfg.custom_values THEN CustomValue(n, obj) ELSE GetAttr(obj, n)]

ReqKey == The(req.kwargs)
Max(a, b) == IF a > b THEN a ELSE b
ReqKeyNext == The(req'.kwargs)

\* C1: POST, PUT and DELETE answer 405 exactly when: POST with no add form;
\* PUT with no edit form or no identifier; DELETE with no identifier.
C1_Status405Exactly ==
    req.method \in {"POST", "PUT", "DELETE"} =>
        ((resp.status = 405) <=>
            \/ req.method = "POST" /\ ~cfg.add_form_class
            \/ req.method = "PUT" /\ (~cfg.edit_form_class \/ req.kwargs = {})
            \/ req.method = "DELETE" /\ req.kwargs = {})

C1_Witness ==
    /\ req.method = "PUT"
    /\ cfg.edit_form_class
    /\ req.kwargs = {}
    /\ resp.status = 405

\* C2 (as claimed): a GET with an identifier, whatever its value, is handled as
\* fetch-single and answers one JSON object or 404, never the array; a GET
\* without an identifier is handled as list-collection and answers an array.
C2_GetChosenByPresence ==
    req.method = "GET" =>
        IF req.kwargs # {}
        THEN /\ resp.op = "get_single_item"
             /\ resp.body.kind # "array"
             /\ (resp.status = 404 \/ (resp.status = 200 /\ resp.body.kind = "object"))
        ELSE /\ resp.op = "get_collection"
             /\ resp.body.kind = "array"

\* C3 (as claimed): with page_size S, a page parameter below 1 or not an
\* integer gives the records of page 1, results[0 : S], and does not fail.
C3_BadPageIsPageOne ==
    (/\ req.method = "GET"
     /\ resp.op = "get_collection"
     /\ cfg.page_size # {}
     /\ req.param # {}
     /\ (~The(req.param).numeric \/ The(req.param).n < 1))
    => /\ resp.status = 200
       /\ resp.body.kind = "array"
       /\ resp.body.items =
            GetValues(cfg, SubSeq(Objs(rows, data), 1,
                                  Min(The(cfg.page_size), Len(rows))), TRUE)

\* C4: with N records, page_size S and page P >= 1, list-collection answers
\* exactly results[(P-1)*S : (P-1)*S + S]: it starts at index (P-1)*S, holds at
\* most S records and is empty, without an error, when (P-1)*S >= N.
PageRecords(P, S) ==
    LET start == (P - 1) * S
        cnt == Max(0, Min(S, Len(rows) - start))
    IN  [i \in 1..cnt |-> Objs(rows, data)[start + i]]

C4_PageSlice ==
    (/\ req.method = "GET"
     /\ resp.op = "get_collection"
     /\ cfg.page_size # {}
     /\ req.param # {}
     /\ The(req.param).numeric
     /\ The(req.param).n >= 1)
    => LET P == The(req.param).n
           S == The(cfg.page_size)
       IN  /\ resp.status = 200
           /\ resp.body.kind = "array"
           /\ resp.body.items = GetValues(cfg, PageRecords(P, S), TRUE)
           /\ Len(resp.body.items) <= S
           /\ ((P - 1) * S >= Len(rows) => resp.body.items = <<>>)

C4_Witness ==
    /\ req.method = "GET"
    /\ resp.op = "get_collection"
    /\ cfg.page_size # {}
    /\ req.param # {}
    /\ The(req.param).numeric
    /\ The(req.param).n >= 2
    /\ resp.status = 200
    /\ resp.body.items # <<>>

\* C5 (as claimed): a DELETE whose identifier matches a record answers 200 with
\* the projection of the record as it was before the deletion; afterwards the
\* record is gone and every record with another key is unchanged.
C5_DeleteReadThenDestroy ==
    [][(/\ req'.method = "DELETE"
        /\ req'.kwargs # {}
        /\ ReqKeyNext \in KeysOf(rows))
       => /\ resp'.status = 200
          /\ resp'.body = ObjectBody(RecordProjection([id |-> ReqKeyNext,
                                                       name |-> data[ReqKeyNext]]))
          /\ ReqKeyNext \notin KeysOf(rows')
          /\ rows' = RemoveKey(rows, ReqKeyNext)
          /\ \A j \in Keys \ {ReqKeyNext} : data'[j] = data[j]]_vars

\* C6: once a DELETE of k has answered 200, every later DELETE of k, with no
\* create of k in between, answers 404 and changes nothing; so does a DELETE
\* of a key no record has.
C6_RepeatedDelete404 ==
    [][(/\ req'.method = "DELETE"
        /\ req'.kwargs # {}
        /\ (ReqKeyNext \in deleted \/ ReqKeyNext \notin KeysOf(rows)))
       => /\ resp'.status = 404
          /\ rows' = rows
          /\ data' = data]_vars

C6_Witness ==
    /\ req.method = "DELETE"
    /\ req.kwargs # {}
    /\ ReqKey \in deleted
    /\ resp.status = 404

\* C7 (as claimed): a PUT with an identifier and an edit form whose identifier
\* matches no record answers 404 whatever the body is, also when the body is
\* not JSON; the form is never used and the collection is unchanged.
C7_PutMissingAlways404 ==
    [][(/\ req'.method = "PUT"
        /\ req'.kwargs # {}
        /\ cfg.edit_form_class
        /\ ReqKeyNext \notin KeysOf(rows))
       => /\ resp'.status = 404
          /\ ~resp'.validated
          /\ rows' = rows
          /\ data' = data]_vars

\* C7 (amended): such a PUT answers 404 when its body decodes as JSON and 400
\* when it does not (the body is decoded before the lookup); in both cases the
\* form is never used and the collection is unchanged.
C7_PutMissingDecodeFirst ==
    [][(/\ req'.method = "PUT"
        /\ req'.kwargs # {}
        /\ cfg.edit_form_class
        /\ ReqKeyNext \notin KeysOf(rows))
       => /\ resp'.status = IF req'.body.json THEN 404 ELSE 400
          /\ ~resp'.validated
          /\ rows' = rows
          /\ data' = data]_vars

C7_Witness ==
    /\ req.method = "PUT"
    /\ req.kwargs # {}
    /\ cfg.edit_form_class
    /\ ReqKey \notin KeysOf(rows)
    /\ req.body.json
    /\ req.body.valid
    /\ resp.status = 404

ProjectionOf(p, obj) ==
    IF cfg.values_override
    THEN p = OverrideValue(obj)
    ELSE \A n \in cfg.custom_values : n \in DOMAIN p /\ p[n] = CustomValue(n, obj)

C9_CustomShadowsPlain ==
    (resp.status = 200 /\ resp.body.kind \in {"object", "array"}) =>
        LET items == resp.body.items
        IN  /\ \A i \in 1..Len(items) :
                 \E obj \in [id : Keys, name : Names] : ProjectionOf(items[i], obj)
            /\ (req.method = "GET" /\ resp.op = "get_single_item")
                 => ProjectionOf(items[1], [id |-> ReqKey, name |-> data[ReqKey]])
            /\ (req.method = "GET" /\ resp.op = "get_collection" /\ cfg.page_size = {})
                 => /\ Len(items) = Len(rows)
                    /\ \A i \in 1..Len(items) :
                         ProjectionOf(items[i], Objs(rows, data)[i])
            /\ (req.method = "PUT")
                 => ProjectionOf(items[1], [id |-> ReqKey, name |-> req.body.name])
            /\ (req.method = "POST")
                 => ProjectionOf(items[1], [id |-> rows[Len(rows)], name |-> req.body.name])

C9_Witness ==
    /\ ~cfg.values_override
    /\ "name" \in cfg.custom_values
    /\ "name" \in cfg.serialize_fields
    /\ req.method = "GET"
    /\ resp.op = "get_single_item"
    /\ resp.status = 200
    /\ resp.body.items[1]["name"] = CustomValue("name", [id |-> ReqKey, name |-> data[ReqKey]])

\* C10 (as claimed): of two DELETE requests for the same identifier, handled
\* concurrently against a collection holding one matching record, at most one
\* answers 200 and the other answers 404.
C10_OneDeleteWins ==
    (/\ thr[1].pc = "done"
     /\ thr[2].pc = "done"
     /\ thr[1].kwargs # {}
     /\ thr[1].kwargs = thr[2].kwargs
     /\ Max(thr[1].seen, thr[2].seen) = 1)
    => /\ ~(thr[1].status = 200 /\ thr[2].status = 200)
       /\ (thr[1].status = 200 => thr[2].status = 404)
       /\ (thr[2].status = 200 => thr[1].status = 404)

====
